---- MODULE Spec2Model ----
(***************************************************************************)
(* A model of src/src/lib.rs: HashMap<K, V>, a hash map with separate      *)
(* chaining.  The table is a vector of buckets, each bucket a vector of    *)
(* (key, value) pairs, plus the item counter.  Every public method is one  *)
(* action; the methods themselves are operators over the table, so that    *)
(* the actions and the properties share one translation of the code.       *)
(***************************************************************************)
EXTENDS Integers, Sequences, FiniteSets, TLC

\* ---------------------------------------------------------------- bounds
\* Keys are 1..MaxKey and values 1..MaxVal (the small universe, several
\* values per key so that an overwrite is visible); GrowKeys is the larger
\* key universe that fills the table past 3/4 of its first bucket count.
MaxKey == 3
MaxVal == 2
MaxGrowKey == 9

Keys == 1..MaxKey
Values == 1..MaxVal
GrowKeys == 1..MaxGrowKey

\* The values a call may pass with key k.  In the small universe every key
\* takes every value; in the large one key 1 takes the first and the last
\* value (so that an overwrite with a new value also happens on a doubling
\* insert) and every other key one value of its own.
ValuesOf == [k \in Keys |-> Values]
GrowValuesOf == [k \in GrowKeys |-> IF k = 1 THEN {1, MaxVal} ELSE {(k % MaxVal) + 1}]

\* ------------------------------------------------------- program constants
INITIAL_NBUCKETS == 10

\* Option<T>: None is the empty tuple, Some(x) the one-element tuple.
None == <<>>
Some(x) == <<x>>

\* DefaultHasher::new() ; key.hash(&mut hasher) ; hasher.finish()
\* The hasher is std's, outside the repository: a deterministic function of
\* the key into u64.  In the table below keys 1 and 2 share a bucket at 10 and
\* at 20 buckets, keys 3 and 4 share one at 10 buckets and part at 20, and
\* every other key has a bucket of its own.  All values are far below 2^64,
\* so the u64 arithmetic of bucket() never wraps.
Hash(key) ==
    CASE key = 1 -> 13
      [] key = 2 -> 33
      [] key = 3 -> 4
      [] key = 4 -> 14
      [] OTHER -> key

VARIABLES buckets, items, cap, op, ret, divisors

vars == <<buckets, items, cap, op, ret, divisors>>

\* divisors is the set of bucket counts that bucket() took the remainder by
\* during the last operation: empty when the operation did not call bucket().
NoCall == {}

\* fn bucket(&self, key): hasher.finish() % self.buckets.len(), 0-based.
\* Only meaningful for a non-empty bucket vector (the remainder by zero panics).
bucket(b, key) == Hash(key) % Len(b)

\* bucket.iter().position(|(k, _)| k == key): the 1-based index of the first
\* pair of the bucket with an equal key, 0 when there is none.
position(bkt, key) ==
    IF \E j \in 1..Len(bkt) : bkt[j][1] = key
    THEN CHOOSE j \in 1..Len(bkt) :
             /\ bkt[j][1] = key
             /\ \A h \in 1..(j - 1) : bkt[h][1] # key
    ELSE 0

\* self.buckets.iter_mut().flat_map(|bucket| bucket.drain(..)): the pairs of
\* all buckets, bucket by bucket, each bucket front to back.
RECURSIVE drain_from(_, _)
drain_from(b, i) == IF i > Len(b) THEN <<>> ELSE b[i] \o drain_from(b, i + 1)

drain(b) == drain_from(b, 1)

\* The loop of resize: every drained pair is pushed onto the bucket of the new
\* vector that its key hashes to, modulo the new vector's length.
RECURSIVE rehash(_, _)
rehash(pairs, new_buckets) ==
    IF pairs = <<>> THEN new_buckets
    ELSE LET key == Head(pairs)[1]
             i == (Hash(key) % Len(new_buckets)) + 1
         IN rehash(Tail(pairs), [new_buckets EXCEPT ![i] = Append(@, Head(pairs))])

\* (0..n).map(|_| Vec::new()): n empty buckets.
RECURSIVE empty_buckets(_)
empty_buckets(n) == IF n = 0 THEN <<>> ELSE Append(empty_buckets(n - 1), <<>>)

\* The doubling applied to the first allocation too.
target_size_doubled(b) == 2 * (IF Len(b) = 0 THEN INITIAL_NBUCKETS ELSE Len(b))

\* Growth by half of the current length instead of doubling.
target_size_half_again(b) ==
    IF Len(b) = 0 THEN INITIAL_NBUCKETS ELSE Len(b) + Len(b) \div 2

\* let target_size = match self.buckets.len() { 0 => INITIAL_NBUCKETS, n => 2 * n }
target_size(b) == IF Len(b) = 0 THEN INITIAL_NBUCKETS ELSE 2 * Len(b)

\* resize with the pairs re-homed modulo the length of the OLD vector.
RECURSIVE rehash_modulo(_, _, _)
rehash_modulo(pairs, new_buckets, m) ==
    IF pairs = <<>> THEN new_buckets
    ELSE LET i == (Hash(Head(pairs)[1]) % m) + 1
         IN rehash_modulo(Tail(pairs),
                          [new_buckets EXCEPT ![i] = Append(@, Head(pairs))], m)

resize_old_modulus(b) ==
    [buckets |-> rehash_modulo(drain(b), empty_buckets(target_size(b)), Len(b)),
     cap |-> target_size(b)]

\* fn resize(&mut self): the new bucket vector and its capacity.
resize(b) ==
    LET new_buckets == empty_buckets(target_size(b))
    IN [buckets |-> rehash(drain(b), new_buckets), cap |-> target_size(b)]

\* The resize test against the whole bucket count instead of 3/4 of it.
needs_resize_when_full(b, n) == Len(b) = 0 \/ n > Len(b)

\* The resize test with >= in place of >.
needs_resize_at_threshold(b, n) == Len(b) = 0 \/ n >= (3 * Len(b)) \div 4

\* The test of insert that decides whether to resize first.
needs_resize(b, n) == Len(b) = 0 \/ n > (3 * Len(b)) \div 4

\* insert that finds the key and returns its value but does not store the new one.
insert_keeps_old(b, n, c, key, value) ==
    LET grown == IF needs_resize(b, n) THEN resize(b) ELSE [buckets |-> b, cap |-> c]
        nb == grown.buckets
        i == bucket(nb, key) + 1
        pos == position(nb[i], key)
    IN IF pos # 0
       THEN [buckets |-> nb, items |-> n, cap |-> grown.cap,
             ret |-> Some(nb[i][pos][2]), divisors |-> {Len(nb)}]
       ELSE [buckets |-> [nb EXCEPT ![i] = Append(@, <<key, value>>)],
             items |-> n + 1, cap |-> grown.cap,
             ret |-> None, divisors |-> {Len(nb)}]

\* insert that returns the value it has just stored instead of the one replaced.
insert_returns_new(b, n, c, key, value) ==
    LET grown == IF needs_resize(b, n) THEN resize(b) ELSE [buckets |-> b, cap |-> c]
        nb == grown.buckets
        i == bucket(nb, key) + 1
        pos == position(nb[i], key)
    IN IF pos # 0
       THEN [buckets |-> [nb EXCEPT ![i][pos] = <<key, value>>],
             items |-> n, cap |-> grown.cap,
             ret |-> Some(value), divisors |-> {Len(nb)}]
       ELSE [buckets |-> [nb EXCEPT ![i] = Append(@, <<key, value>>)],
             items |-> n + 1, cap |-> grown.cap,
             ret |-> None, divisors |-> {Len(nb)}]

\* insert that never counts the pair it pushes.
insert_no_count(b, n, c, key, value) ==
    LET grown == IF needs_resize(b, n) THEN resize(b) ELSE [buckets |-> b, cap |-> c]
        nb == grown.buckets
        i == bucket(nb, key) + 1
        pos == position(nb[i], key)
    IN IF pos # 0
       THEN [buckets |-> [nb EXCEPT ![i][pos] = <<key, value>>],
             items |-> n, cap |-> grown.cap,
             ret |-> Some(nb[i][pos][2]), divisors |-> {Len(nb)}]
       ELSE [buckets |-> [nb EXCEPT ![i] = Append(@, <<key, value>>)],
             items |-> n, cap |-> grown.cap,
             ret |-> None, divisors |-> {Len(nb)}]

\* insert that pushes the pair without looking for the key in the bucket.
insert_always_push(b, n, c, key, value) ==
    LET grown == IF needs_resize(b, n) THEN resize(b) ELSE [buckets |-> b, cap |-> c]
        nb == grown.buckets
        i == bucket(nb, key) + 1
    IN [buckets |-> [nb EXCEPT ![i] = Append(@, <<key, value>>)],
        items |-> n + 1, cap |-> grown.cap,
        ret |-> None, divisors |-> {Len(nb)}]

\* insert that computes the bucket index before the resize (a table without
\* buckets aside, where the index can only be taken afterwards).
insert_stale_index(b, n, c, key, value) ==
    LET grown == IF needs_resize(b, n) THEN resize(b) ELSE [buckets |-> b, cap |-> c]
        nb == grown.buckets
        i == (IF Len(b) = 0 THEN bucket(nb, key) ELSE bucket(b, key)) + 1
        pos == position(nb[i], key)
    IN IF pos # 0
       THEN [buckets |-> [nb EXCEPT ![i][pos] = <<key, value>>],
             items |-> n, cap |-> grown.cap,
             ret |-> Some(nb[i][pos][2]), divisors |-> {Len(nb)}]
       ELSE [buckets |-> [nb EXCEPT ![i] = Append(@, <<key, value>>)],
             items |-> n + 1, cap |-> grown.cap,
             ret |-> None, divisors |-> {Len(nb)}]

\* insert that looks for the key first and overwrites in place, and only
\* considers a resize when the key is new.
insert_scan_first(b, n, c, key, value) ==
    LET found == Len(b) > 0 /\ position(b[bucket(b, key) + 1], key) # 0
        grown == IF (~found) /\ needs_resize(b, n)
                 THEN resize(b) ELSE [buckets |-> b, cap |-> c]
        nb == grown.buckets
        i == bucket(nb, key) + 1
        pos == position(nb[i], key)
    IN IF pos # 0
       THEN [buckets |-> [nb EXCEPT ![i][pos] = <<key, value>>],
             items |-> n, cap |-> grown.cap,
             ret |-> Some(nb[i][pos][2]), divisors |-> {Len(nb)}]
       ELSE [buckets |-> [nb EXCEPT ![i] = Append(@, <<key, value>>)],
             items |-> n + 1, cap |-> grown.cap,
             ret |-> None, divisors |-> {Len(nb)}]

\* fn insert(&mut self, key, value) -> Option<V>
\* The remainder that resize takes for the pairs it moves is by the length of
\* the new vector, the same number bucket() divides by afterwards.
insert(b, n, c, key, value) ==
    LET grown == IF needs_resize(b, n) THEN resize(b) ELSE [buckets |-> b, cap |-> c]
        nb == grown.buckets
        i == bucket(nb, key) + 1
        pos == position(nb[i], key)
    IN IF pos # 0
       THEN [buckets |-> [nb EXCEPT ![i][pos] = <<key, value>>],
             items |-> n, cap |-> grown.cap,
             ret |-> Some(nb[i][pos][2]), divisors |-> {Len(nb)}]
       ELSE [buckets |-> [nb EXCEPT ![i] = Append(@, <<key, value>>)],
             items |-> n + 1, cap |-> grown.cap,
             ret |-> None, divisors |-> {Len(nb)}]

\* get without the early return for an empty bucket vector: bucket() takes
\* the remainder by zero.
get_unguarded(b, key) ==
    IF Len(b) = 0 THEN [ret |-> None, divisors |-> {Len(b)}]
    ELSE LET i == bucket(b, key) + 1
             pos == position(b[i], key)
         IN [ret |-> IF pos = 0 THEN None ELSE Some(b[i][pos][2]),
             divisors |-> {Len(b)}]

\* fn get(&self, key) -> Option<&V>
get(b, key) ==
    IF Len(b) = 0 THEN [ret |-> None, divisors |-> NoCall]
    ELSE LET i == bucket(b, key) + 1
             pos == position(b[i], key)
         IN [ret |-> IF pos = 0 THEN None ELSE Some(b[i][pos][2]),
             divisors |-> {Len(b)}]

\* fn capacity(&self) -> usize: self.buckets.capacity()
capacity(c) == c

\* fn len(&self) -> usize
len(n) == n

\* fn is_empty(&self) -> bool
is_empty(n) == n = 0

\* clear that resets the counter and leaves the buckets as they are.
clear_count_only(b) == [buckets |-> b, items |-> 0]

\* clear that empties the bucket vector itself (self.buckets.clear()).
clear_drops_buckets(b) == [buckets |-> <<>>, items |-> 0]

\* fn clear(&mut self)
clear(b) == [buckets |-> empty_buckets(Len(b)), items |-> 0]

\* contains_key that only asks whether the key's bucket holds anything.
contains_key_any(b, key) ==
    IF Len(b) = 0 THEN [ret |-> FALSE, divisors |-> NoCall]
    ELSE [ret |-> b[bucket(b, key) + 1] # <<>>, divisors |-> {Len(b)}]

\* fn contains_key(&self, key) -> bool: self.get(key).is_some()
contains_key(b, key) ==
    LET g == get(b, key) IN [ret |-> g.ret # None, divisors |-> g.divisors]

\* get_mut that hands out the first value of the bucket, whatever its key.
get_mut_first(b, key) ==
    IF Len(b) = 0 THEN [ret |-> None, divisors |-> NoCall]
    ELSE LET i == bucket(b, key) + 1
         IN [ret |-> IF b[i] = <<>> THEN None ELSE Some(<<i, 1>>),
             divisors |-> {Len(b)}]

\* fn get_mut(&mut self, key) -> Option<&mut V>: the handle is the place of the
\* value, <<bucket index, position>>; the key of the pair is not reachable
\* through it.
get_mut(b, key) ==
    IF Len(b) = 0 THEN [ret |-> None, divisors |-> NoCall]
    ELSE LET i == bucket(b, key) + 1
             pos == position(b[i], key)
         IN [ret |-> IF pos = 0 THEN None ELSE Some(<<i, pos>>),
             divisors |-> {Len(b)}]

\* *handle = value, the caller's write through the &mut V of get_mut.
write(b, handle, value) == [b EXCEPT ![handle[1]][handle[2]][2] = value]

\* Vec::truncate(pos - 1) in place of Vec::remove: the pairs behind go too.
vec_remove_truncates(bkt, pos) == SubSeq(bkt, 1, pos - 1)

\* Vec::remove(pos): the bucket without its pos-th pair, the rest in order.
vec_remove(bkt, pos) == SubSeq(bkt, 1, pos - 1) \o SubSeq(bkt, pos + 1, Len(bkt))

\* remove that takes the first pair of the bucket instead of the one found.
remove_first(b, n, key) ==
    IF Len(b) = 0 THEN [buckets |-> b, items |-> n, ret |-> None, divisors |-> NoCall]
    ELSE LET i == bucket(b, key) + 1
             pos == position(b[i], key)
         IN IF pos = 0
            THEN [buckets |-> b, items |-> n, ret |-> None, divisors |-> {Len(b)}]
            ELSE [buckets |-> [b EXCEPT ![i] = vec_remove(@, 1)],
                  items |-> IF n > 0 THEN n - 1 ELSE n,
                  ret |-> Some(b[i][1][2]), divisors |-> {Len(b)}]

\* remove that decrements the counter before it knows whether the key is there.
remove_miss_decrements(b, n, key) ==
    IF Len(b) = 0 THEN [buckets |-> b, items |-> n, ret |-> None, divisors |-> NoCall]
    ELSE LET i == bucket(b, key) + 1
             pos == position(b[i], key)
             m == IF n > 0 THEN n - 1 ELSE n
         IN IF pos = 0
            THEN [buckets |-> b, items |-> m, ret |-> None, divisors |-> {Len(b)}]
            ELSE [buckets |-> [b EXCEPT ![i] = vec_remove(@, pos)],
                  items |-> m,
                  ret |-> Some(b[i][pos][2]), divisors |-> {Len(b)}]

\* remove that takes the pair out and forgets the counter.
remove_keeps_count(b, n, key) ==
    IF Len(b) = 0 THEN [buckets |-> b, items |-> n, ret |-> None, divisors |-> NoCall]
    ELSE LET i == bucket(b, key) + 1
             pos == position(b[i], key)
         IN IF pos = 0
            THEN [buckets |-> b, items |-> n, ret |-> None, divisors |-> {Len(b)}]
            ELSE [buckets |-> [b EXCEPT ![i] = vec_remove(@, pos)],
                  items |-> n,
                  ret |-> Some(b[i][pos][2]), divisors |-> {Len(b)}]

\* fn remove(&mut self, key) -> Option<V>
remove(b, n, key) ==
    IF Len(b) = 0 THEN [buckets |-> b, items |-> n, ret |-> None, divisors |-> NoCall]
    ELSE LET i == bucket(b, key) + 1
             pos == position(b[i], key)
         IN IF pos = 0
            THEN [buckets |-> b, items |-> n, ret |-> None, divisors |-> {Len(b)}]
            ELSE [buckets |-> [b EXCEPT ![i] = vec_remove(@, pos)],
                  items |-> IF n > 0 THEN n - 1 ELSE n,
                  ret |-> Some(b[i][pos][2]), divisors |-> {Len(b)}]

\* ---------------------------------------------------------------- actions
\* HashMap::new()
Init ==
    /\ buckets = <<>>
    /\ items = 0
    /\ cap = 0
    /\ op = [name |-> "new"]
    /\ ret = None
    /\ divisors = NoCall

Insert(k, v) ==
    LET r == insert(buckets, items, cap, k, v)
    IN /\ buckets' = r.buckets
       /\ items' = r.items
       /\ cap' = r.cap
       /\ op' = [name |-> "insert", key |-> k, value |-> v]
       /\ ret' = r.ret
       /\ divisors' = r.divisors

Get(k) ==
    LET r == get(buckets, k)
    IN /\ op' = [name |-> "get", key |-> k]
       /\ ret' = r.ret
       /\ divisors' = r.divisors
       /\ UNCHANGED <<buckets, items, cap>>

ContainsKey(k) ==
    LET r == contains_key(buckets, k)
    IN /\ op' = [name |-> "contains_key", key |-> k]
       /\ ret' = r.ret
       /\ divisors' = r.divisors
       /\ UNCHANGED <<buckets, items, cap>>

\* map.get_mut(&k) alone: the handle is dropped without a write.
GetMut(k) ==
    LET r == get_mut(buckets, k)
    IN /\ op' = [name |-> "get_mut", key |-> k]
       /\ ret' = r.ret
       /\ divisors' = r.divisors
       /\ UNCHANGED <<buckets, items, cap>>

\* if let Some(value) = map.get_mut(&k) { *value = v }
GetMutWrite(k, v) ==
    LET r == get_mut(buckets, k)
    IN /\ op' = [name |-> "get_mut_write", key |-> k, value |-> v]
       /\ ret' = r.ret
       /\ divisors' = r.divisors
       /\ buckets' = IF r.ret = None THEN buckets ELSE write(buckets, r.ret[1], v)
       /\ UNCHANGED <<items, cap>>

Remove(k) ==
    LET r == remove(buckets, items, k)
    IN /\ buckets' = r.buckets
       /\ items' = r.items
       /\ op' = [name |-> "remove", key |-> k]
       /\ ret' = r.ret
       /\ divisors' = r.divisors
       /\ UNCHANGED cap

Clear ==
    LET r == clear(buckets)
    IN /\ buckets' = r.buckets
       /\ items' = r.items
       /\ op' = [name |-> "clear"]
       /\ ret' = None
       /\ divisors' = NoCall
       /\ UNCHANGED cap

LenOp ==
    /\ op' = [name |-> "len"]
    /\ ret' = len(items)
    /\ divisors' = NoCall
    /\ UNCHANGED <<buckets, items, cap>>

IsEmpty ==
    /\ op' = [name |-> "is_empty"]
    /\ ret' = is_empty(items)
    /\ divisors' = NoCall
    /\ UNCHANGED <<buckets, items, cap>>

Capacity ==
    /\ op' = [name |-> "capacity"]
    /\ ret' = capacity(cap)
    /\ divisors' = NoCall
    /\ UNCHANGED <<buckets, items, cap>>

\* Any method that takes &mut self (get_mut together with the caller's write):
\* insert, remove and clear with keys from KS, get_mut with keys from MS, and
\* for key k values from VS[k].
Mutate(KS, MS, VS) ==
    \/ \E k \in KS : \E v \in VS[k] : Insert(k, v)
    \/ \E k \in MS : \E v \in VS[k] : GetMutWrite(k, v)
    \/ \E k \in KS : Remove(k)
    \/ Clear

\* Any method that only reads the table.
Observe(KS) ==
    \/ \E k \in KS : Get(k)
    \/ \E k \in KS : ContainsKey(k)
    \/ \E k \in KS : GetMut(k)
    \/ LenOp
    \/ IsEmpty
    \/ Capacity

\* Every public method over the small universe.
Next == Mutate(Keys, Keys, ValuesOf) \/ Observe(Keys)

Spec == Init /\ [][Next]_vars

\* The mutating methods over the key universe that is large enough to push
\* the item count past 3/4 of INITIAL_NBUCKETS, so that the table doubles.
\* Writes through get_mut stay within the small keys, which hold the colliding
\* ones.  The reading methods change nothing of the table; the properties
\* below evaluate them as operators on every state reached.
NextGrow == Mutate(GrowKeys, Keys, GrowValuesOf)

SpecGrow == Init /\ [][NextGrow]_vars

\* ------------------------------------------------------------- properties
\* The keys of a sequence of pairs, and the keys stored anywhere in b.
KeysOf(pairs) == {pairs[j][1] : j \in 1..Len(pairs)}
KeySet(b) == KeysOf(drain(b))

\* The number of pairs stored in b: the sum of the bucket lengths.
TotalLen(b) == Len(drain(b))

\* How many times the pair p occurs in a sequence of pairs.
Count(pairs, p) == Cardinality({j \in 1..Len(pairs) : pairs[j] = p})

\* The pairs of a sequence, and the pairs stored anywhere in b, as a set.
PairsOf(pairs) == {pairs[j] : j \in 1..Len(pairs)}
PairSet(b) == PairsOf(drain(b))

\* b1 and b2 store the same pairs, each the same number of times.
SamePairs(b1, b2) ==
    LET d1 == drain(b1)
        d2 == drain(b2)
    IN \A p \in PairsOf(d1) \cup PairsOf(d2) : Count(d1, p) = Count(d2, p)

\* No pair is stored twice in b.
NoPairTwice(b) ==
    LET d == drain(b) IN \A p \in PairsOf(d) : Count(d, p) = 1

\* C1. Round-trip: right after insert(k, v), whether it resized or not and
\* whether k was present or not, get(k) returns Some(v).
C1_RoundTrip ==
    op.name = "insert" => get(buckets, op.key).ret = Some(op.value)

\* An insert that overwrote another value of its key in a table that has
\* doubled, and one that added the key that made the table double.
C1_Witness ==
    /\ op.name = "insert"
    /\ Len(buckets) = 2 * INITIAL_NBUCKETS
    /\ ret # None
    /\ ret # Some(op.value)
    /\ items > (3 * INITIAL_NBUCKETS) \div 4

\* C2. insert(k, v) returns Some(old) exactly when k was stored with value old
\* before the call and None exactly when k was absent; an overwrite leaves
\* len() unchanged; afterwards get(k) is Some(v); and an insert of k right
\* after an insert(k, v1) returns Some(v1).
C2_InsertReturnsPrevious ==
    [][op'.name = "insert" =>
          /\ ret' = get(buckets, op'.key).ret
          /\ (ret' # None => len(items') = len(items))
          /\ get(buckets', op'.key).ret = Some(op'.value)
          /\ (op.name = "insert" /\ op.key = op'.key => ret' = Some(op.value))
      ]_vars

\* An overwrite with a different value, of a key that shares its bucket.
C2_Witness ==
    /\ op.name = "insert"
    /\ ret # None
    /\ ret # Some(op.value)
    /\ items = MaxKey

\* C3. len() is the number of distinct keys stored and the counter is the sum
\* of the bucket lengths, in every state; an insert of a new key adds one, an
\* overwrite nothing, a successful remove takes one away, clear sets it to 0.
C3_OccupancyAccurate ==
    /\ [](/\ len(items) = Cardinality(KeySet(buckets))
          /\ items = TotalLen(buckets))
    /\ [][/\ op'.name = "insert" =>
               items' = items + (IF get(buckets, op'.key).ret = None THEN 1 ELSE 0)
          /\ op'.name = "remove" =>
               items' = items - (IF get(buckets, op'.key).ret = None THEN 0 ELSE 1)
          /\ op'.name = "clear" => items' = 0
         ]_vars

\* A successful remove from a table that has doubled and was full before.
C3_Witness ==
    /\ op.name = "remove"
    /\ ret # None
    /\ Len(buckets) = 2 * INITIAL_NBUCKETS
    /\ items = MaxGrowKey - 1

\* C4. A resize loses, duplicates and alters no pair: whenever insert would
\* resize, the resized vector holds the same pairs and gives every key the
\* same get; and after an insert that resized, every other key has the get it
\* had before, the inserted key has the inserted value, the pairs are those of
\* before with the inserted one written over or added, and the counter grew
\* by one for a new key and not at all for an overwrite.
C4_ResizeTransparent ==
    /\ [](needs_resize(buckets, items) =>
            LET resized == resize(buckets).buckets
            IN /\ SamePairs(resized, buckets)
               /\ \A k \in GrowKeys : get(resized, k).ret = get(buckets, k).ret)
    /\ [][Len(buckets') # Len(buckets) =>
            /\ op'.name = "insert"
            /\ \A k \in GrowKeys \ {op'.key} :
                   get(buckets', k).ret = get(buckets, k).ret
            /\ get(buckets', op'.key).ret = Some(op'.value)
            /\ PairSet(buckets') =
                   {p \in PairSet(buckets) : p[1] # op'.key}
                       \cup {<<op'.key, op'.value>>}
            /\ NoPairTwice(buckets')
            /\ items' = items + (IF get(buckets, op'.key).ret = None THEN 1 ELSE 0)
         ]_vars

\* More distinct keys than 3/4 of the first bucket count, all retrievable
\* after the insert of a new key that doubled the table.
C4_Witness ==
    /\ op.name = "insert"
    /\ ret = None
    /\ Len(buckets) = 2 * INITIAL_NBUCKETS
    /\ items = MaxGrowKey
    /\ \A k \in GrowKeys : get(buckets, k).ret # None

\* C5. remove(k) of a stored key returns the value stored for it, and
\* afterwards get(k) is None and contains_key(k) false; remove(k) of a key that
\* is not stored returns None and leaves len() as it was.
C5_RemovalCorrect ==
    [][op'.name = "remove" =>
          /\ ret' = get(buckets, op'.key).ret
          /\ get(buckets', op'.key).ret = None
          /\ ~contains_key(buckets', op'.key).ret
          /\ (get(buckets, op'.key).ret = None => len(items') = len(items))
      ]_vars

\* A successful remove whose bucket still holds the colliding key.
C5_Witness ==
    /\ op.name = "remove"
    /\ ret # None
    /\ buckets[bucket(buckets, op.key) + 1] # <<>>

\* C6. After clear(), len() is 0, is_empty() is true, every bucket is empty
\* and get(k) is None for every key, the keys stored before included.
C6_ClearResets ==
    op.name = "clear" =>
        /\ len(items) = 0
        /\ is_empty(items)
        /\ \A i \in 1..Len(buckets) : buckets[i] = <<>>
        /\ \A k \in GrowKeys : get(buckets, k).ret = None

\* clear() has run on a table that had grown to twice its first size.
C6_Witness ==
    /\ op.name = "clear"
    /\ Len(buckets) = 2 * INITIAL_NBUCKETS

\* C7. With zero buckets, get, get_mut, contains_key and remove report not
\* found for every key without calling bucket(); and no operation ever takes
\* the remainder by a bucket count of zero.
C7_EmptyFastPath ==
    /\ 0 \notin divisors
    /\ Len(buckets) = 0 =>
           \A k \in Keys :
               /\ get(buckets, k) = [ret |-> None, divisors |-> NoCall]
               /\ get_mut(buckets, k) = [ret |-> None, divisors |-> NoCall]
               /\ contains_key(buckets, k) = [ret |-> FALSE, divisors |-> NoCall]
               /\ remove(buckets, items, k).ret = None
               /\ remove(buckets, items, k).divisors = NoCall
    /\ (Len(buckets) = 0 /\ op.name \in {"get", "get_mut", "get_mut_write", "remove"})
           => ret = None
    /\ (Len(buckets) = 0 /\ op.name = "contains_key") => ret = FALSE

\* A lookup has run on the table without buckets.
C7_Witness ==
    /\ Len(buckets) = 0
    /\ op.name = "get"
    /\ divisors = NoCall

\* C8. The first insert into a table without buckets allocates exactly
\* INITIAL_NBUCKETS buckets before it places the pair: afterwards the bucket
\* count and capacity() are 10, the pair sits in the bucket computed modulo
\* 10, and len() is 1.
C8_FirstInsertAllocates ==
    [][(Len(buckets) = 0 /\ op'.name = "insert") =>
          /\ Len(buckets') = INITIAL_NBUCKETS
          /\ capacity(cap') = INITIAL_NBUCKETS
          /\ divisors' = {INITIAL_NBUCKETS}
          /\ buckets'[(Hash(op'.key) % INITIAL_NBUCKETS) + 1] = <<<<op'.key, op'.value>>>>
          /\ len(items') = 1
          /\ ~is_empty(items')
      ]_vars

\* The state right after the first insert.
C8_Witness ==
    /\ op.name = "insert"
    /\ Len(buckets) = INITIAL_NBUCKETS
    /\ capacity(cap) = INITIAL_NBUCKETS
    /\ len(items) = 1

\* The keys of each bucket, in order: where every key resides.
Placement(b) == [i \in 1..Len(b) |-> [j \in 1..Len(b[i]) |-> b[i][j][1]]]

\* C9. get_mut(k) of a stored key yields a handle to k's value, and a write of
\* v through it makes get(k) return Some(v); of a key not stored it yields
\* None.  Either way the bucket count, the counter, the keys, the place of
\* every key and the value of every other key are as before.
C9_GetMutFrame ==
    [][(op'.name \in {"get_mut", "get_mut_write"}) =>
          /\ (ret' = None) = (get(buckets, op'.key).ret = None)
          /\ ret' # None => buckets[ret'[1][1]][ret'[1][2]][1] = op'.key
          /\ (ret' # None /\ op'.name = "get_mut_write")
                 => get(buckets', op'.key).ret = Some(op'.value)
          /\ (ret' = None \/ op'.name = "get_mut") => buckets' = buckets
          /\ Len(buckets') = Len(buckets)
          /\ items' = items
          /\ Placement(buckets') = Placement(buckets)
          /\ \A k \in Keys \ {op'.key} : get(buckets', k).ret = get(buckets, k).ret
      ]_vars

\* A write through the handle of the second pair of a bucket.
C9_Witness ==
    /\ op.name = "get_mut_write"
    /\ ret # None
    /\ ret[1][2] = 2
    /\ get(buckets, op.key).ret = Some(op.value)

\* C10. contains_key(k) is true exactly when get(k) finds a value, which is
\* exactly when k is stored in some bucket, in every state (zero buckets
\* included); it is true for k after insert(k, _), false for k after remove(k),
\* false for every key after clear(), and it becomes true for a key only by an
\* insert of that key.
C10_ContainsKey ==
    /\ [](/\ \A k \in Keys :
                /\ contains_key(buckets, k).ret = (get(buckets, k).ret # None)
                /\ contains_key(buckets, k).ret = (k \in KeySet(buckets))
          /\ op.name = "contains_key" => ret = (get(buckets, op.key).ret # None)
          /\ op.name = "insert" => contains_key(buckets, op.key).ret
          /\ op.name = "remove" => ~contains_key(buckets, op.key).ret
          /\ op.name = "clear" => \A k \in Keys : ~contains_key(buckets, k).ret
          /\ op.name = "new" => \A k \in Keys : ~contains_key(buckets, k).ret)
    /\ [][\A k \in Keys :
              (~contains_key(buckets, k).ret /\ contains_key(buckets', k).ret)
                  => (op'.name = "insert" /\ op'.key = k)
         ]_vars

\* contains_key has answered no for a key whose bucket holds the colliding key.
C10_Witness ==
    /\ op.name = "contains_key"
    /\ ret = FALSE
    /\ Len(buckets) > 0
    /\ buckets[bucket(buckets, op.key) + 1] # <<>>

\* C11. No duplicate keys: in every state, resizes included, every key is
\* stored in at most one place of the table.
C11_NoDuplicateKeys ==
    LET d == drain(buckets)
    IN \A j1, j2 \in 1..Len(d) : d[j1][1] = d[j2][1] => j1 = j2

\* After a doubling, two keys share a bucket and an insert has overwritten
\* one of them.
C11_Witness ==
    /\ op.name = "insert"
    /\ ret # None
    /\ Len(buckets) = 2 * INITIAL_NBUCKETS
    /\ \E i \in 1..Len(buckets) : Len(buckets[i]) = 2

\* C12. Bucket placement: in every state every stored pair sits in the bucket
\* whose index is the hash of its key modulo the current bucket count; after a
\* resize no pair is left in a bucket computed modulo the old count.
C12_BucketPlacement ==
    \A i \in 1..Len(buckets) :
        \A j \in 1..Len(buckets[i]) :
            /\ bucket(buckets, buckets[i][j][1]) + 1 = i
            /\ (Hash(buckets[i][j][1]) % Len(buckets)) + 1 = i

\* After the doubling, a pair sits in a bucket that the old vector did not have.
C12_Witness ==
    /\ Len(buckets) = 2 * INITIAL_NBUCKETS
    /\ \E i \in (INITIAL_NBUCKETS + 1)..Len(buckets) : buckets[i] # <<>>
    /\ \E i \in 1..INITIAL_NBUCKETS : buckets[i] # <<>>

\* n is INITIAL_NBUCKETS * 2^j for some j >= 0.
RECURSIVE InGrowthSequence(_)
InGrowthSequence(n) ==
    \/ n = INITIAL_NBUCKETS
    \/ /\ n > INITIAL_NBUCKETS
       /\ n % 2 = 0
       /\ InGrowthSequence(n \div 2)

\* C13. Growth sequence: the bucket count is 0 or 10 * 2^j in every state, and
\* every change of it is from 0 to 10 or to exactly twice the count before.
C13_GrowthSequence ==
    /\ [](Len(buckets) = 0 \/ InGrowthSequence(Len(buckets)))
    /\ [][Len(buckets') # Len(buckets) =>
             Len(buckets') = (IF Len(buckets) = 0 THEN INITIAL_NBUCKETS
                              ELSE 2 * Len(buckets))
         ]_vars

\* The table has doubled once.
C13_Witness ==
    /\ Len(buckets) = 2 * INITIAL_NBUCKETS
    /\ cap = 2 * INITIAL_NBUCKETS
    /\ op.name = "insert"

\* C14. Resize trigger: an insert resizes exactly when the table has no
\* buckets or 4 * items > 3 * bucket count; the integer test of the code,
\* items > 3 * len / 4, agrees with that comparison for the bucket count of
\* every state and every count up to one past the number of keys; and an
\* insert resizes at most once.
C14_ResizeTrigger ==
    /\ [](\A n \in 0..(MaxGrowKey + 1) :
              needs_resize(buckets, n)
                  = (Len(buckets) = 0 \/ 4 * n > 3 * Len(buckets)))
    /\ [][op'.name = "insert" =>
             /\ (Len(buckets') # Len(buckets))
                    = (Len(buckets) = 0 \/ 4 * items > 3 * Len(buckets))
             /\ Len(buckets') \in {Len(buckets), target_size(buckets)}
         ]_vars
    /\ [][op'.name # "insert" => Len(buckets') = Len(buckets)]_vars

\* An insert has filled the first vector to one past 3/4 without resizing:
\* it ran with items equal to 3 * 10 / 4, which is not above the threshold.
C14_Witness ==
    /\ op.name = "insert"
    /\ ret = None
    /\ Len(buckets) = INITIAL_NBUCKETS
    /\ items = (3 * INITIAL_NBUCKETS) \div 4 + 1

\* C15. The bucket count never decreases; remove, clear, get, get_mut,
\* contains_key, len, is_empty and capacity leave it as it is, and insert is
\* the only method that changes it, always to a larger count.
C15_LengthMonotone ==
    [][/\ Len(buckets') >= Len(buckets)
       /\ op'.name # "insert" => Len(buckets') = Len(buckets)
       /\ Len(buckets') # Len(buckets) =>
              (op'.name = "insert" /\ Len(buckets') > Len(buckets))
      ]_vars

\* clear() has run on an allocated table and the buckets are still there.
C15_Witness ==
    /\ op.name = "clear"
    /\ Len(buckets) = INITIAL_NBUCKETS
    /\ items = 0

\* C16. remove(k) of a key that is not stored, in a table without buckets or
\* in a bucket without an equal key, returns None and leaves the bucket count,
\* every bucket with its order, and the counter as they were.
C16_RemoveMissFrame ==
    [][(op'.name = "remove" /\ get(buckets, op'.key).ret = None) =>
          /\ ret' = None
          /\ buckets' = buckets
          /\ Len(buckets') = Len(buckets)
          /\ items' = items
          /\ cap' = cap
      ]_vars

\* A miss in a bucket that holds the colliding key.
C16_Witness ==
    /\ op.name = "remove"
    /\ ret = None
    /\ Len(buckets) > 0
    /\ buckets[bucket(buckets, op.key) + 1] # <<>>
    /\ items > 1

\* C17. Whenever remove finds the key it takes out exactly that one pair and
\* the counter goes down by exactly one; the guard items > 0 never decides:
\* in every state that stores a pair the counter is at least 1, and the
\* counter is never negative.
C17_RemoveDecrements ==
    /\ [](/\ items >= 0
          /\ TotalLen(buckets) > 0 => items >= 1
          /\ \A k \in GrowKeys :
                 LET r == remove(buckets, items, k)
                 IN r.ret # None => (items >= 1 /\ r.items = items - 1))
    /\ [][(op'.name = "remove" /\ get(buckets, op'.key).ret # None) =>
             /\ items' = items - 1
             /\ TotalLen(buckets') = TotalLen(buckets) - 1
             /\ PairSet(buckets') =
                    PairSet(buckets) \ {<<op'.key, get(buckets, op'.key).ret[1]>>}
             /\ NoPairTwice(buckets')
         ]_vars

\* The last pair has been removed: the counter went from 1 to 0.
C17_Witness ==
    /\ op.name = "remove"
    /\ ret # None
    /\ items = 0
    /\ Len(buckets) = 2 * INITIAL_NBUCKETS

\* C18. Load-factor bound: with n > 0 buckets the counter is at most
\* 3 * n / 4 + 1 (rounded down); one doubling is always enough: whenever
\* insert would resize, the counter is within 3/4 of the new bucket count, and
\* it still is after the insert that resized.
C18_LoadFactorBound ==
    /\ [](/\ Len(buckets) > 0 => items <= (3 * Len(buckets)) \div 4 + 1
          /\ needs_resize(buckets, items) =>
                 /\ 4 * items <= 3 * Len(resize(buckets).buckets)
                 /\ ~needs_resize(resize(buckets).buckets, items))
    /\ [][Len(buckets') # Len(buckets) => 4 * items' <= 3 * Len(buckets')]_vars

\* The bound is attained: 3 * 10 / 4 + 1 items in the first vector.
C18_Witness ==
    /\ Len(buckets) = INITIAL_NBUCKETS
    /\ items = (3 * INITIAL_NBUCKETS) \div 4 + 1
    /\ needs_resize(buckets, items)

\* C19. insert(k, v) and remove(k) change the lookup of no other key: for
\* every k2 # k, get(k2) after the call is get(k2) before it, also when the
\* insert resized and moved k2 to another bucket and when k and k2 share a
\* bucket.
C19_OtherKeysUntouched ==
    [][op'.name \in {"insert", "remove"} =>
          \/ buckets' = buckets
          \/ \A k2 \in GrowKeys \ {op'.key} :
                 get(buckets', k2).ret = get(buckets, k2).ret
      ]_vars

\* A remove of the first pair of a shared bucket in the doubled table, with a
\* key stored that the doubling moved to a new bucket.
C19_Witness ==
    /\ op.name = "remove"
    /\ ret # None
    /\ Len(buckets) = 2 * INITIAL_NBUCKETS
    /\ buckets[bucket(buckets, op.key) + 1] # <<>>
    /\ \E i \in (INITIAL_NBUCKETS + 1)..Len(buckets) : buckets[i] # <<>>

\* C20. insert tests for the resize before it looks for the key: whether it
\* grows depends on the bucket count and the counter before the call alone,
\* so an insert that overwrites a stored key grows the table under the same
\* condition as an insert of a new key, and still leaves the counter alone.
C20_ResizeBeforeScan ==
    [][op'.name = "insert" =>
          /\ needs_resize(buckets, items) =>
                 /\ Len(buckets') = target_size(buckets)
                 /\ cap' = target_size(buckets)
          /\ ~needs_resize(buckets, items) => Len(buckets') = Len(buckets)
          /\ get(buckets, op'.key).ret # None =>
                 /\ items' = items
                 /\ ret' # None
      ]_vars

\* An overwrite in the doubled table that holds exactly the 3 * 10 / 4 + 1
\* pairs at which an insert doubles the first vector.
C20_Witness ==
    /\ op.name = "insert"
    /\ ret = Some(op.value)
    /\ Len(buckets) = 2 * INITIAL_NBUCKETS
    /\ items = (3 * INITIAL_NBUCKETS) \div 4 + 1

====
